---- MODULE Spec2Model ----
(***************************************************************************)
(* BE Solar Control Center: the authenticator (validate_login /            *)
(* unlock_user), the reference allocator (get_next_invoice_ref /            *)
(* get_next_agreement_no), the document writer, the history query and the  *)
(* analytics aggregator of src/core_backend.py, driven by the page          *)
(* handlers of src/streamlit_app.py.                                        *)
(*                                                                         *)
(* Text is a sequence of one-character strings, so that formatting,        *)
(* splitting, parsing and pattern matching are computed, not assumed.      *)
(* A SQL NULL / Python None in a text position is the constant NoUser or   *)
(* the "null" kind of a JSON value.                                        *)
(***************************************************************************)
EXTENDS Integers, Sequences, FiniteSets, TLC

VARIABLES
    users,           \* table users: username -> row
    session,         \* st.session_state of every browser session
    pc,              \* position of a session inside an interleaved handler
    local,           \* local variables of a session's running handler
    invoices,        \* table invoices, in insertion order
    agreements,      \* table agreements, in insertion order
    activity_logs,   \* table activity_logs, the entries of category "generate"
    today,           \* the calendar month datetime.now() falls in
    stamp,           \* number of instants datetime.now() has been read for created_at
    generated,       \* number of "Generate Documents" clicks handled so far
    last             \* the handler call that ran last, with what it returned

vars == <<users, session, pc, local, invoices, agreements, activity_logs,
          today, stamp, generated, last>>

docVars == <<invoices, agreements, activity_logs, today, stamp, generated>>

(***************************************************************************)
(* Bounds of the model.                                                    *)
(***************************************************************************)
MaxGen == 2        \* "Generate Documents" clicks explored
MaxTicks == 1      \* months the calendar advances

(***************************************************************************)
(* Text helpers: Python's str, str.zfill, str.split, int, float, and the   *)
(* store's LIKE / ILIKE with a %...% pattern.                              *)
(***************************************************************************)
Range(f) == {f[i] : i \in DOMAIN f}

Digits == <<"0", "1", "2", "3", "4", "5", "6", "7", "8", "9">>

DigitMap == [c \in Range(Digits) |-> (CHOOSE i \in 1..10 : Digits[i] = c) - 1]

IsDigit(c) == c \in DOMAIN DigitMap

DigitVal(c) == DigitMap[c]

UpperCase == <<"A", "B", "C", "D", "E", "F", "G", "H", "I", "J", "K", "L", "M",
               "N", "O", "P", "Q", "R", "S", "T", "U", "V", "W", "X", "Y", "Z">>

LowerCase == <<"a", "b", "c", "d", "e", "f", "g", "h", "i", "j", "k", "l", "m",
               "n", "o", "p", "q", "r", "s", "t", "u", "v", "w", "x", "y", "z">>

\* One character folded to lower case, as ILIKE compares.
LowerMap ==
    [c \in Range(UpperCase) |-> LowerCase[CHOOSE i \in 1..26 : UpperCase[i] = c]]

Lower(c) == IF c \in DOMAIN LowerMap THEN LowerMap[c] ELSE c

LowerStr(s) == [i \in 1..Len(s) |-> Lower(s[i])]

\* s contains p as a contiguous substring: s LIKE '%p%' for a p without
\* wildcards.
Contains(s, p) ==
    \E i \in 1..(Len(s) - Len(p) + 1) : SubSeq(s, i, i + Len(p) - 1) = p

\* column ILIKE '%search%'
ILike(s, search) == Contains(LowerStr(s), LowerStr(search))

\* str(n) of a Python int.
RECURSIVE NatToStr(_)
NatToStr(n) ==
    IF n < 10 THEN <<Digits[n + 1]>>
    ELSE NatToStr(n \div 10) \o <<Digits[(n % 10) + 1]>>

IntToStr(n) == IF n < 0 THEN <<"-">> \o NatToStr(0 - n) ELSE NatToStr(n)

\* s.zfill(width): zeros on the left up to width, after a leading sign.
Zfill(s, width) ==
    LET zeros == [i \in 1..(width - Len(s)) |-> "0"]
    IN  IF Len(s) >= width THEN s
        ELSE IF Len(s) > 0 /\ s[1] \in {"+", "-"}
             THEN <<s[1]>> \o zeros \o Tail(s)
             ELSE zeros \o s

\* s.split("/")[-1]: what follows the last "/", the whole of s without one.
LastSegment(s) ==
    LET slashes == {i \in 1..Len(s) : s[i] = "/"}
    IN  IF slashes = {} THEN s
        ELSE SubSeq(s, (CHOOSE i \in slashes : \A j \in slashes : j <= i) + 1, Len(s))

RECURSIVE DigitsVal(_)
DigitsVal(s) ==
    IF Len(s) = 0 THEN 0
    ELSE 10 * DigitsVal(SubSeq(s, 1, Len(s) - 1)) + DigitVal(s[Len(s)])

\* int(s): an optional sign and decimal digits; anything else raises
\* ValueError (ok = FALSE).  The model's alphabet holds no white space and
\* no underscore, the other things int() accepts.
ParseInt(s) ==
    LET signed == Len(s) > 0 /\ s[1] \in {"+", "-"}
        body == IF signed THEN Tail(s) ELSE s
        ok == Len(body) > 0 /\ \A i \in 1..Len(body) : IsDigit(body[i])
    IN  [ok |-> ok,
         val |-> IF ~ok THEN 0
                 ELSE IF signed /\ s[1] = "-" THEN 0 - DigitsVal(body)
                 ELSE DigitsVal(body)]

SetMax(S) == CHOOSE x \in S : \A y \in S : y <= x

(***************************************************************************)
(* Users and passwords.                                                    *)
(***************************************************************************)
NoUser == "None"                     \* Python None in a username / role position

Usernames == {"admin", "ravi", "mina"}

\* What is typed into the login form: the provisioned names and one that
\* is no user.
TypedNames == Usernames \cup {"ghost"}

Passwords == {"admin@123", "ravi-pw", "mina-pw", "letmein"}

\* hash_password: SHA-256 hex digest, without collisions on Passwords.
hash_password(password) == <<"sha256", password>>

verify_password(password, hashed) == hash_password(password) = hashed

\* create_user's row.
create_user(id, password, role) ==
    [id |-> id, password_hash |-> hash_password(password), role |-> role,
     active |-> TRUE, failed_attempts |-> 0, locked |-> FALSE,
     last_login |-> FALSE]

PasswordOf(u) ==
    CASE u = "admin" -> "admin@123"
      [] u = "ravi" -> "ravi-pw"
      [] u = "mina" -> "mina-pw"

\* The provisioned users: the default admin of ensure_default_admin and
\* two staff accounts.
ProvisionedUsers ==
    [u \in Usernames |->
        CASE u = "admin" -> create_user(1, "admin@123", "admin")
          [] u = "ravi" -> create_user(2, "ravi-pw", "staff")
          [] u = "mina" -> create_user(3, "mina-pw", "staff")]

\* Accounts whose active column has been set to false in the store.
Deactivated == {"mina"}

\* get_user: the row of that username, or None.
NoRow == [found |-> FALSE, username |-> NoUser, row |-> create_user(0, "letmein", NoUser)]

get_user(tbl, username) ==
    IF username \in DOMAIN tbl
    THEN [found |-> TRUE, username |-> username, row |-> tbl[username]]
    ELSE NoRow

\* table("users").update(changes).eq("id", id): the columns named in
\* changes are overwritten in the row of that id.
UpdateById(tbl, id, changes) ==
    [u \in DOMAIN tbl |->
        IF tbl[u].id = id
        THEN [f \in DOMAIN tbl[u] |->
                 IF f \in DOMAIN changes THEN changes[f] ELSE tbl[u][f]]
        ELSE tbl[u]]

None == [some |-> FALSE, username |-> NoUser, role |-> NoUser]

Identity(username, role) == [some |-> TRUE, username |-> username, role |-> role]

(***************************************************************************)
(* Authenticator.                                                          *)
(***************************************************************************)
\* validate_login_from with the lockout threshold off by one (> 3).
validate_login_late_lock(user, tbl, password) ==
    IF ~user.found \/ user.row.locked \/ ~user.row.active
    THEN [ret |-> None, users |-> tbl]
    ELSE IF verify_password(password, user.row.password_hash)
    THEN [ret |-> Identity(user.username, user.row.role),
          users |-> UpdateById(tbl, user.row.id,
                       [failed_attempts |-> 0, last_login |-> TRUE])]
    ELSE [ret |-> None,
          users |-> UpdateById(tbl, user.row.id,
                       [failed_attempts |-> user.row.failed_attempts + 1, locked |-> user.row.failed_attempts + 1 > 3])]

\* validate_login_from counting a wrong password before it looks at locked
\* and active.
validate_login_count_first(user, tbl, password) ==
    IF ~user.found THEN [ret |-> None, users |-> tbl]
    ELSE IF ~verify_password(password, user.row.password_hash)
    THEN [ret |-> None,
          users |-> UpdateById(tbl, user.row.id,
                       [failed_attempts |-> user.row.failed_attempts + 1, locked |-> user.row.failed_attempts + 1 >= 3])]
    ELSE IF user.row.locked \/ ~user.row.active
    THEN [ret |-> None, users |-> tbl]
    ELSE [ret |-> Identity(user.username, user.row.role),
          users |-> UpdateById(tbl, user.row.id,
                       [failed_attempts |-> 0, last_login |-> TRUE])]

\* validate_login_from with a successful login that stamps last_login and
\* leaves failed_attempts as it is.
validate_login_keep_count(user, tbl, password) ==
    IF ~user.found \/ user.row.locked \/ ~user.row.active
    THEN [ret |-> None, users |-> tbl]
    ELSE IF verify_password(password, user.row.password_hash)
    THEN [ret |-> Identity(user.username, user.row.role),
          users |-> UpdateById(tbl, user.row.id, [last_login |-> TRUE])]
    ELSE [ret |-> None,
          users |-> UpdateById(tbl, user.row.id,
                       [failed_attempts |-> user.row.failed_attempts + 1,
                        locked |-> user.row.failed_attempts + 1 >= 3])]

\* validate_login after its get_user: user is what get_user returned, tbl
\* the users table at the time of the update.  ret is the return value,
\* users the table after the call.
validate_login_from(user, tbl, password) ==
    IF ~user.found THEN [ret |-> None, users |-> tbl]
    ELSE IF user.row.locked THEN [ret |-> None, users |-> tbl]
    ELSE IF ~user.row.active THEN [ret |-> None, users |-> tbl]
    ELSE IF verify_password(password, user.row.password_hash)
    THEN [ret |-> Identity(user.username, user.row.role),
          users |-> UpdateById(tbl, user.row.id,
                       [failed_attempts |-> 0, last_login |-> TRUE])]
    ELSE LET attempts == user.row.failed_attempts + 1
             locked == attempts >= 3
         IN  [ret |-> None,
              users |-> UpdateById(tbl, user.row.id,
                           [failed_attempts |-> attempts, locked |-> locked])]

\* validate_login run from its first line to its return with nothing in
\* between.
validate_login(tbl, username, password) ==
    validate_login_from(get_user(tbl, username), tbl, password)

\* unlock_user clearing locked and leaving the counter.
unlock_user_keep_count(tbl, user_id) ==
    UpdateById(tbl, user_id, [locked |-> FALSE])

unlock_user(tbl, user_id) ==
    UpdateById(tbl, user_id,
        [failed_attempts |-> 0, locked |-> FALSE])

LoggedOut == [logged_in |-> FALSE, username |-> NoUser, role |-> NoUser]

Sessions == {"s1", "s2"}

Idle == [op |-> "none"]

\* login_page, "Login" clicked, as one step.  The activity log entry of
\* category "auth" is outside activity_logs as modelled.
LoginPage(s, username, password) ==
    /\ pc[s] = "idle"
    /\ ~session[s].logged_in
    /\ LET r == validate_login(users, username, password)
       IN  /\ users' = r.users
           /\ session' = [session EXCEPT ![s] =
                  IF r.ret.some
                  THEN [logged_in |-> TRUE, username |-> r.ret.username,
                        role |-> r.ret.role]
                  ELSE @]
           /\ last' = [op |-> "login", s |-> s, username |-> username,
                       password |-> password, ret |-> r.ret]
    /\ UNCHANGED <<pc, local, docVars>>

\* logout: record_logout stamps last_logout, a column nothing reads and the
\* model leaves out; the session is cleared whether or not it succeeds.
Logout(s) ==
    /\ pc[s] = "idle"
    /\ session[s].logged_in
    /\ session' = [session EXCEPT ![s] = LoggedOut]
    /\ last' = [op |-> "logout", s |-> s]
    /\ UNCHANGED <<users, pc, local, docVars>>

\* staff_security_page: an admin clicks "Unlock", shown for locked users.
UnlockPage(s, u) ==
    /\ pc[s] = "idle"
    /\ session[s].logged_in
    /\ session[s].role = "admin"
    /\ users[u].locked
    /\ users' = unlock_user(users, users[u].id)
    /\ last' = [op |-> "unlock", s |-> s, username |-> u]
    /\ UNCHANGED <<session, pc, local, docVars>>

(***************************************************************************)
(* The calendar.                                                           *)
(***************************************************************************)
FirstMonth == [year |-> 2025, month |-> 12]

NextMonth(d) ==
    IF d.month = 12 THEN [year |-> d.year + 1, month |-> 1]
    ELSE [year |-> d.year, month |-> d.month + 1]

\* Months between FirstMonth and d.
MonthsSince(d) == (d.year - FirstMonth.year) * 12 + d.month - FirstMonth.month

(***************************************************************************)
(* Initial state: the provisioned users table, in which the account mina   *)
(* has been deactivated in the store, nobody logged in, no documents.      *)
(***************************************************************************)
Init ==
    /\ users = [u \in Usernames |->
                  [ProvisionedUsers[u] EXCEPT !.active = u \notin Deactivated]]
    /\ session = [s \in Sessions |-> LoggedOut]
    /\ pc = [s \in Sessions |-> "idle"]
    /\ local = [s \in Sessions |-> Idle]
    /\ invoices = <<>>
    /\ agreements = <<>>
    /\ activity_logs = <<>>
    /\ today = FirstMonth
    /\ stamp = 0
    /\ generated = 0
    /\ last = Idle

(***************************************************************************)
(* The authenticator under sequential execution: every handler runs to     *)
(* completion before the next starts.                                      *)
(***************************************************************************)
NextAuth ==
    \/ \E s \in Sessions, u \in TypedNames, p \in Passwords : LoginPage(s, u, p)
    \/ \E s \in Sessions : Logout(s)
    \/ \E s \in Sessions, u \in Usernames : UnlockPage(s, u)

SpecAuth == Init /\ [][NextAuth]_vars

(***************************************************************************)
(* The authenticator with interleaved requests: validate_login's get_user  *)
(* and its update are two round trips to the store, and other sessions'    *)
(* requests may run between them.                                          *)
(***************************************************************************)
\* validate_login, line 51: get_user.
LoginRead(s, username, password) ==
    /\ pc[s] = "idle"
    /\ ~session[s].logged_in
    /\ pc' = [pc EXCEPT ![s] = "login_update"]
    /\ local' = [local EXCEPT ![s] =
           [op |-> "login", username |-> username, password |-> password,
            user |-> get_user(users, username)]]
    /\ UNCHANGED <<users, session, last, docVars>>

\* validate_login, lines 52-84, and login_page's use of the result.
LoginWrite(s) ==
    /\ pc[s] = "login_update"
    /\ LET r == validate_login_from(local[s].user, users, local[s].password)
       IN  /\ users' = r.users
           /\ session' = [session EXCEPT ![s] =
                  IF r.ret.some
                  THEN [logged_in |-> TRUE, username |-> r.ret.username,
                        role |-> r.ret.role]
                  ELSE @]
           /\ last' = [op |-> "login", s |-> s, username |-> local[s].username,
                       password |-> local[s].password, ret |-> r.ret]
    /\ pc' = [pc EXCEPT ![s] = "idle"]
    /\ local' = [local EXCEPT ![s] = Idle]
    /\ UNCHANGED docVars

NextAuthConc ==
    \/ \E s \in Sessions, u \in TypedNames, p \in Passwords : LoginRead(s, u, p)
    \/ \E s \in Sessions : LoginWrite(s)
    \/ \E s \in Sessions : Logout(s)
    \/ \E s \in Sessions, u \in Usernames : UnlockPage(s, u)

SpecAuthConc == Init /\ [][NextAuthConc]_vars

(***************************************************************************)
(* Properties of the authenticator.                                        *)
(***************************************************************************)
WrongPasswords(u) == {p \in Passwords : p # PasswordOf(u)}

\* C1: from every reachable state, three consecutive validate_login calls
\* with wrong passwords on an active, unlocked user leave that user locked,
\* and a call with the correct password on a locked user returns None.
C1_ThreeFailuresLock ==
    \A u \in Usernames :
       /\ (users[u].active /\ ~users[u].locked) =>
             \A w1 \in WrongPasswords(u), w2 \in WrongPasswords(u),
                w3 \in WrongPasswords(u) :
                LET t1 == validate_login(users, u, w1).users
                    t2 == validate_login(t1, u, w2).users
                    t3 == validate_login(t2, u, w3).users
                IN  /\ t3[u].locked
                    /\ validate_login(t3, u, PasswordOf(u)).ret = None
       /\ users[u].locked => validate_login(users, u, PasswordOf(u)).ret = None

\* A login with the correct password has just been refused because the
\* active user is locked after three failures.
C1_Witness ==
    /\ last.op = "login"
    /\ last.username \in Usernames
    /\ last.password = PasswordOf(last.username)
    /\ ~last.ret.some
    /\ users[last.username].active
    /\ users[last.username].locked
    /\ users[last.username].failed_attempts = 3
    /\ \A s \in Sessions : ~session[s].logged_in

\* C2: a step that takes a user's locked from true to false is an
\* unlock_user of that user.
C2_LockoutMonotonic ==
    [][\A u \in Usernames :
          (users[u].locked /\ ~users'[u].locked) =>
              (last'.op = "unlock" /\ last'.username = u)]_vars

\* C3: when unlock_user has run for a locked user, that user has
\* failed_attempts = 0 and locked = false, and a validate_login with the
\* correct password (user active) then returns {username, role} and leaves
\* both fields so.
C3_UnlockThenLogin ==
    last.op = "unlock" =>
       LET u == last.username
           r == validate_login(users, u, PasswordOf(u))
       IN  /\ users[u].failed_attempts = 0
           /\ ~users[u].locked
           /\ users[u].active =>
                 /\ r.ret = Identity(u, users[u].role)
                 /\ r.users[u].failed_attempts = 0
                 /\ ~r.users[u].locked

\* unlock_user has just run for an active user.
C3_Witness ==
    /\ last.op = "unlock"
    /\ users[last.username].active
    /\ users[last.username].role = "staff"

\* C10: for an absent, locked or inactive user validate_login returns None
\* for every password and leaves the users table as it is; under sequential
\* execution failed_attempts never exceeds 3.
C10_FailsClosed ==
    /\ \A name \in TypedNames, p \in Passwords :
          (\/ name \notin DOMAIN users
           \/ users[name].locked
           \/ ~users[name].active) =>
              validate_login(users, name, p) = [ret |-> None, users |-> users]
    /\ \A u \in Usernames : users[u].failed_attempts <= 3

\* A wrong password has just been tried on the deactivated account, whose
\* counter is still 0, while another user is locked at 3.
C10_Witness ==
    /\ last.op = "login"
    /\ last.username \in Deactivated
    /\ last.password # PasswordOf(last.username)
    /\ ~last.ret.some
    /\ users[last.username].failed_attempts = 0
    /\ ~users[last.username].locked
    /\ \E u \in Usernames : users[u].locked /\ users[u].failed_attempts = 3

\* The step's access to user u: what the handler that has just run did with
\* u's row.
SucceededFor(u) ==
    last'.op = "login" /\ last'.username = u /\ last'.ret.some

FailedFor(u) ==
    /\ last'.op = "login" /\ last'.username = u /\ ~last'.ret.some
    /\ last'.password # PasswordOf(u)
    /\ users[u].active /\ ~users[u].locked

UnlockedFor(u) == last'.op = "unlock" /\ last'.username = u

\* From the table tbl, in which u is active and unlocked: fail, fail,
\* success, fail, fail leaves u unlocked with a count of 2 whatever the
\* wrong passwords are, and the next failure locks.
FailFailSuccessFailFail(tbl, u) ==
    \A w1 \in WrongPasswords(u), w2 \in WrongPasswords(u) :
       \A t1 \in {validate_login(tbl, u, w1).users} :
       \A t2 \in {validate_login(t1, u, w2).users} :
       \A t3 \in {validate_login(t2, u, PasswordOf(u)).users} :
       \A t4 \in {validate_login(t3, u, w2).users} :
       \A t5 \in {validate_login(t4, u, w1).users} :
       \A t6 \in {validate_login(t5, u, w1).users} :
          /\ t3[u].failed_attempts = 0 /\ ~t3[u].locked
          /\ t5[u].failed_attempts = 2 /\ ~t5[u].locked
          /\ t6[u].locked

\* C11: under sequential execution, for every user u and every step:
\* a successful login of u sets failed_attempts to 0 and leaves locked false;
\* an unlock sets it to 0; a wrong password on the active unlocked u adds 1;
\* every other step leaves the count.  So failed_attempts is the number of
\* wrong passwords since u's last successful login or unlock, and locked
\* becomes true only at a wrong password that takes the count from 2 to 3.
\* From a count of 0 fail, fail, success, fail, fail does not lock.
C11_OnlyConsecutiveFailuresCount ==
    /\ [][\A u \in Usernames :
             /\ SucceededFor(u) =>
                    /\ users'[u].failed_attempts = 0
                    /\ ~users[u].locked /\ ~users'[u].locked
             /\ UnlockedFor(u) => users'[u].failed_attempts = 0
             /\ FailedFor(u) =>
                    users'[u].failed_attempts = users[u].failed_attempts + 1
             /\ ~(SucceededFor(u) \/ UnlockedFor(u) \/ FailedFor(u)) =>
                    users'[u].failed_attempts = users[u].failed_attempts
             /\ (~users[u].locked /\ users'[u].locked) =>
                    /\ FailedFor(u)
                    /\ users[u].failed_attempts = 2
                    /\ users'[u].failed_attempts = 3]_vars
    /\ [](\A u \in Usernames :
             (users[u].active /\ users[u].failed_attempts = 0) =>
                 FailFailSuccessFailFail(users, u))

\* ravi is logged in in one session, so a login of ravi has succeeded, and
\* a second wrong password for ravi has just been tried in the other: the
\* count is 2 and ravi is not locked.
C11_Witness ==
    /\ last.op = "login"
    /\ last.username = "ravi"
    /\ last.password # PasswordOf("ravi")
    /\ ~last.ret.some
    /\ \E s \in Sessions : session[s].logged_in /\ session[s].username = "ravi"
    /\ users["ravi"].last_login
    /\ users["ravi"].failed_attempts = 2
    /\ ~users["ravi"].locked

(***************************************************************************)
(* Documents: rows, form input, reference allocator, document writer.      *)
(***************************************************************************)
RATE_PER_KW == 70000

ROWS_PER_PAGE == 20

InvoicePrefix == <<"B", "E", "/", "K", "N", "G", "/", "P", "M", "S", "G", "/", "Q", "T", "N", "/">>

AgreementPrefix == <<"A", "G", "/", "S", "G", "/", "A", "P", "D", "C", "L", "/">>

\* now.strftime("%m/%y")
month_key(now) ==
    Zfill(IntToStr(now.month), 2) \o <<"/">> \o Zfill(IntToStr(now.year % 100), 2)

\* str(datetime.now().year)
year_key(now) == IntToStr(now.year)

\* The numbers the allocator collects from the selected references:
\* int(ref.split("/")[-1]) of every one that parses.
RefNums(refs) ==
    {ParseInt(LastSegment(refs[i])).val :
        i \in {j \in DOMAIN refs : ParseInt(LastSegment(refs[j])).ok}}

\* The next number taken from the count of the rows, not their maximum.
NextNumCounting(nums) == Cardinality(nums) + 1

\* next_num = max(nums) + 1 if nums else 1
NextNum(nums) == IF nums # {} THEN SetMax(nums) + 1 ELSE 1

\* A select without the period filter.
SelectAll(refs, key) == refs

\* select(column).like(column, "%/<key>/%")
SelectLike(refs, key) ==
    SelectSeq(refs, LAMBDA r : Contains(r, <<"/">> \o key \o <<"/">>))

InvoiceRefs(rows) == [i \in DOMAIN rows |-> rows[i].invoice_ref]

AgreementNos(rows) == [i \in DOMAIN rows |-> rows[i].agreement_no]

get_next_invoice_ref(rows, now) ==
    LET key == month_key(now)
        next_num == NextNum(RefNums(SelectLike(InvoiceRefs(rows), key)))
    IN  InvoicePrefix \o key \o <<"/">> \o Zfill(IntToStr(next_num), 4)

get_next_agreement_no(rows, now) ==
    LET year == year_key(now)
        next_num == NextNum(RefNums(SelectLike(AgreementNos(rows), year)))
    IN  AgreementPrefix \o year \o <<"/">> \o Zfill(IntToStr(next_num), 4)

\* A JSON value of the amount column.
Num(n) == [kind |-> "num", num |-> n, text |-> <<>>]

Text(t) == [kind |-> "text", num |-> 0, text |-> t]

Null == [kind |-> "null", num |-> 0, text |-> <<>>]

\* What "Generate Documents" reads from the form.  capacity10 is the
\* selected capacity in tenths of a kW (3, 4.5, 5, 10).
FormInputs ==
    {[customer_name |-> <<"A", "s", "h", "a">>, phone |-> <<"5", "5", "5", "1">>, capacity10 |-> 50],
     [customer_name |-> <<"A", "s", "h", "a">>, phone |-> <<>>, capacity10 |-> 30]}

phase_of(capacity10) == IF capacity10 >= 50 THEN "Three Phase" ELSE "Single Phase"

\* int(capacity * RATE_PER_KW)
total_amount(capacity10) == (capacity10 * RATE_PER_KW) \div 10

\* The row "Generate Documents" hands to insert_invoice.
InvoiceRow(ref, form, username, created_at) ==
    [invoice_ref |-> ref, customer_name |-> form.customer_name,
     phone |-> form.phone, capacity10 |-> form.capacity10,
     phase |-> phase_of(form.capacity10),
     amount |-> Num(total_amount(form.capacity10)),
     created_by |-> username, created_at |-> created_at]

AgreementRow(no, form, username, created_at) ==
    [agreement_no |-> no, customer_name |-> form.customer_name,
     phone |-> form.phone, capacity10 |-> form.capacity10,
     phase |-> phase_of(form.capacity10),
     amount |-> Num(total_amount(form.capacity10)),
     created_by |-> username, created_at |-> created_at]

\* now.isoformat(): the month and the instant within the run.
At(now, t) == [year |-> now.year, month |-> now.month, t |-> t]

\* The reference column of a document row.
RowRef(row) ==
    IF "invoice_ref" \in DOMAIN row THEN row.invoice_ref ELSE row.agreement_no

\* An insert that stores the row although the call raises.
InsertStoringOnFailure(tbl, row, ok) == Append(tbl, row)

\* An insert under a uniqueness constraint on the reference column.
InsertUnique(tbl, row, ok) ==
    IF ok /\ \A i \in DOMAIN tbl : RowRef(tbl[i]) # RowRef(row)
    THEN Append(tbl, row) ELSE tbl

\* insert_invoice / insert_agreement: the row is appended, or the call
\* raises (ok = FALSE) and nothing is stored.

Insert(tbl, row, ok) == IF ok THEN Append(tbl, row) ELSE tbl

\* log_activity(username, "Generated <invoice_ref> & <agreement_no>", "generate")
GenerateLog(username, invoice_ref, agreement_no) ==
    [username |-> username, category |-> "generate",
     invoice_ref |-> invoice_ref, agreement_no |-> agreement_no]

\* Rows the store holds from earlier use, oldest first: a reference of an
\* earlier period with a larger number, a reference entered ahead for the
\* coming period whose last segment is no number, references 0001 and 0003
\* of the first month; one amount is text and one is NULL.
LegacyInvoices ==
    LET f1 == [customer_name |-> <<"A", "s", "h", "a">>, phone |-> <<"5", "5", "5", "1">>, capacity10 |-> 30]
        f2 == [customer_name |-> <<"R", "a", "o">>, phone |-> <<"9", "8", "7", "0">>, capacity10 |-> 100]
        nov == [year |-> 2025, month |-> 11]
    IN  << [InvoiceRow(InvoicePrefix \o <<"1", "1", "/", "2", "5", "/", "0", "0", "0", "7">>, f2, "mina", At(nov, 1))
               EXCEPT !.amount = Text(<<"N", "/", "A">>)],
           [InvoiceRow(InvoicePrefix \o <<"0", "1", "/", "2", "6", "/", "N", "E", "W">>, f1, "admin", At(FirstMonth, 2))
               EXCEPT !.amount = Null],
           InvoiceRow(InvoicePrefix \o <<"1", "2", "/", "2", "5", "/", "0", "0", "0", "1">>, f1, "ravi", At(FirstMonth, 3)),
           InvoiceRow(InvoicePrefix \o <<"1", "2", "/", "2", "5", "/", "0", "0", "0", "3">>, f2, "admin", At(FirstMonth, 4)) >>

LegacyAgreements ==
    LET f1 == [customer_name |-> <<"A", "s", "h", "a">>, phone |-> <<"5", "5", "5", "1">>, capacity10 |-> 30]
        f2 == [customer_name |-> <<"R", "a", "o">>, phone |-> <<"9", "8", "7", "0">>, capacity10 |-> 100]
        y24 == [year |-> 2024, month |-> 11]
    IN  << [AgreementRow(AgreementPrefix \o <<"2", "0", "2", "4", "/", "0", "0", "0", "7">>, f2, "mina", At(y24, 1))
               EXCEPT !.amount = Text(<<"N", "/", "A">>)],
           [AgreementRow(AgreementPrefix \o <<"2", "0", "2", "6", "/", "D", "R", "A", "F", "T">>, f1, "admin", At(FirstMonth, 2))
               EXCEPT !.amount = Null],
           AgreementRow(AgreementPrefix \o <<"2", "0", "2", "5", "/", "0", "0", "0", "1">>, f1, "ravi", At(FirstMonth, 3)),
           AgreementRow(AgreementPrefix \o <<"2", "0", "2", "5", "/", "0", "0", "0", "3">>, f2, "admin", At(FirstMonth, 4)) >>

\* How many of the legacy rows the store holds at the start.
LegacyCounts == {0, 4}

\* The store call at which a handler run is cut short by an exception.
NoFailure == "none"

FailurePoints ==
    {NoFailure, "get_next_invoice_ref", "get_next_agreement_no",
     "insert_invoice", "insert_agreement", "log_activity"}

\* generate_documents_page, "Generate Documents" clicked, as one step: both
\* allocations, both inserts and the log entry, cut short at failAt.
Generate(s, form, failAt) ==
    /\ pc[s] = "idle"
    /\ session[s].logged_in
    /\ generated < MaxGen
    /\ IF form.customer_name = <<>> \/ form.phone = <<>>
       THEN /\ failAt = NoFailure
            /\ last' = [op |-> "generate", s |-> s, outcome |-> "rejected"]
            /\ UNCHANGED docVars
       ELSE LET invoice_ref == get_next_invoice_ref(invoices, today)
                agreement_no == get_next_agreement_no(agreements, today)
                now == At(today, stamp + 1)
                me == session[s].username
                allocated == failAt \notin {"get_next_invoice_ref", "get_next_agreement_no"}
                inv == Insert(invoices, InvoiceRow(invoice_ref, form, me, now),
                              failAt # "insert_invoice")
                agr == Insert(agreements, AgreementRow(agreement_no, form, me, now),
                              failAt # "insert_agreement")
            IN  /\ generated' = generated + 1
                /\ stamp' = IF allocated THEN stamp + 1 ELSE stamp
                /\ invoices' = IF allocated THEN inv ELSE invoices
                /\ agreements' =
                       IF allocated /\ failAt # "insert_invoice" THEN agr ELSE agreements
                /\ activity_logs' =
                       IF failAt = NoFailure
                       THEN Append(activity_logs, GenerateLog(me, invoice_ref, agreement_no))
                       ELSE activity_logs
                /\ last' = [op |-> "generate", s |-> s,
                            outcome |-> IF failAt = NoFailure THEN "saved" ELSE "error",
                            failAt |-> failAt,
                            invoice_ref |-> IF failAt = "get_next_invoice_ref"
                                            THEN <<>> ELSE invoice_ref,
                            agreement_no |-> IF allocated THEN agreement_no ELSE <<>>]
                /\ UNCHANGED today
    /\ UNCHANGED <<users, session, pc, local>>

\* A month passes.
Tick ==
    /\ MonthsSince(today) < MaxTicks
    /\ today' = NextMonth(today)
    /\ last' = [op |-> "tick"]
    /\ UNCHANGED <<users, session, pc, local, invoices, agreements,
                   activity_logs, stamp, generated>>

\* The state from which documents are written: the administrator and a
\* staff member have logged in, and the store holds some of the legacy rows.
InitDocs ==
    /\ users = [u \in Usernames |->
                  [ProvisionedUsers[u] EXCEPT !.active = u \notin Deactivated,
                                              !.last_login = u \notin Deactivated]]
    /\ session = [s \in Sessions |->
                    IF s = "s1"
                    THEN [logged_in |-> TRUE, username |-> "admin", role |-> "admin"]
                    ELSE [logged_in |-> TRUE, username |-> "ravi", role |-> "staff"]]
    /\ pc = [s \in Sessions |-> "idle"]
    /\ local = [s \in Sessions |-> Idle]
    /\ \E k \in LegacyCounts :
          /\ invoices = SubSeq(LegacyInvoices, 1, k)
          /\ agreements = SubSeq(LegacyAgreements, 1, k)
    /\ activity_logs = <<>>
    /\ today = FirstMonth
    /\ stamp = Len(LegacyInvoices)
    /\ generated = 0
    /\ last = Idle

NextDocs ==
    \/ \E s \in Sessions, form \in FormInputs, failAt \in FailurePoints :
          Generate(s, form, failAt)
    \/ Tick

SpecDocs == InitDocs /\ [][NextDocs]_vars

(***************************************************************************)
(* Properties of the reference allocator and the document writer.          *)
(***************************************************************************)
\* The period segment of a reference in the program's format: what stands
\* between the fixed prefix and the last "/".
RefPeriod(ref, prefix) ==
    IF Len(ref) > Len(prefix) /\ SubSeq(ref, 1, Len(prefix)) = prefix
    THEN SubSeq(ref, Len(prefix) + 1, Len(ref) - Len(LastSegment(ref)) - 1)
    ELSE <<>>

RefNumber(ref) == ParseInt(LastSegment(ref))

\* max + 1 over the references of period key with a numeric last segment,
\* 1 without any.
ExpectedNext(refs, prefix, key) ==
    LET cur == {i \in DOMAIN refs :
                   RefPeriod(refs[i], prefix) = key /\ RefNumber(refs[i]).ok}
    IN  IF cur = {} THEN 1
        ELSE 1 + SetMax({RefNumber(refs[i]).val : i \in cur})

\* C4: in every reachable state the allocators return the current period's
\* key with sequence number max + 1 over that period's parseable stored
\* references (1 without any); other periods and non-numeric last segments
\* have no influence.
C4_NextIsMaxPlusOne ==
    LET ref == get_next_invoice_ref(invoices, today)
        no == get_next_agreement_no(agreements, today)
    IN  /\ RefPeriod(ref, InvoicePrefix) = month_key(today)
        /\ RefNumber(ref) =
              [ok |-> TRUE,
               val |-> ExpectedNext(InvoiceRefs(invoices), InvoicePrefix, month_key(today))]
        /\ RefPeriod(no, AgreementPrefix) = year_key(today)
        /\ RefNumber(no) =
              [ok |-> TRUE,
               val |-> ExpectedNext(AgreementNos(agreements), AgreementPrefix, year_key(today))]

\* With 0001 and 0003 stored for 12/25 and 0007 for 11/25, the first
\* generation got 0004, and after the month changed the next one got 0001,
\* the only stored reference of 01/26 having no numeric last segment.
C4_Witness ==
    /\ generated = 2
    /\ Len(invoices) = 6
    /\ Len(agreements) = 6
    /\ invoices[5].invoice_ref = InvoicePrefix \o <<"1", "2", "/", "2", "5", "/", "0", "0", "0", "4">>
    /\ invoices[6].invoice_ref = InvoicePrefix \o <<"0", "1", "/", "2", "6", "/", "0", "0", "0", "1">>
    /\ agreements[5].agreement_no = AgreementPrefix \o <<"2", "0", "2", "5", "/", "0", "0", "0", "4">>
    /\ agreements[6].agreement_no = AgreementPrefix \o <<"2", "0", "2", "6", "/", "0", "0", "0", "1">>

Distinct(refs) == \A i, j \in DOMAIN refs : i # j => refs[i] # refs[j]

Increasing(refs, prefix) ==
    \A i, j \in DOMAIN refs :
       (/\ i < j
        /\ RefPeriod(refs[i], prefix) = RefPeriod(refs[j], prefix)
        /\ RefNumber(refs[i]).ok
        /\ RefNumber(refs[j]).ok) => RefNumber(refs[i]).val < RefNumber(refs[j]).val

\* C5: when every generation runs to its end before the next starts, the
\* stored references of each table are pairwise distinct, and within one
\* period the sequence numbers increase strictly in the order of insertion.
C5_DistinctAndIncreasing ==
    /\ Distinct(InvoiceRefs(invoices))
    /\ Distinct(AgreementNos(agreements))
    /\ Increasing(InvoiceRefs(invoices), InvoicePrefix)
    /\ Increasing(AgreementNos(agreements), AgreementPrefix)

\* Two documents have been generated in the same month on top of the legacy
\* rows.
C5_Witness ==
    /\ generated = 2
    /\ last.op = "generate"
    /\ last.outcome = "saved"
    /\ Len(invoices) = 6
    /\ Len(agreements) = 6
    /\ RefPeriod(invoices[5].invoice_ref, InvoicePrefix)
          = RefPeriod(invoices[6].invoice_ref, InvoicePrefix)
    /\ invoices[5].created_by # invoices[6].created_by

FailedAt(point) ==
    last.op = "generate" /\ last.outcome = "error" /\ last.failAt = point

\* C8 as stated: after a failed insert the next allocation in the same
\* period returns a larger number than the one the failed insert carried,
\* which is not stored.
C8_GapAfterFailedInsert ==
    /\ FailedAt("insert_invoice") =>
          /\ RefNumber(get_next_invoice_ref(invoices, today)).val
                > RefNumber(last.invoice_ref).val
          /\ \A i \in DOMAIN invoices : invoices[i].invoice_ref # last.invoice_ref
    /\ FailedAt("insert_agreement") =>
          /\ RefNumber(get_next_agreement_no(agreements, today)).val
                > RefNumber(last.agreement_no).val
          /\ \A i \in DOMAIN agreements : agreements[i].agreement_no # last.agreement_no

\* C8 amended: a failed insert stores nothing, and the next allocation in
\* the same period returns the same reference again: no gap.
C8_NoGapAfterFailedInsert ==
    /\ FailedAt("insert_invoice") =>
          /\ get_next_invoice_ref(invoices, today) = last.invoice_ref
          /\ \A i \in DOMAIN invoices : invoices[i].invoice_ref # last.invoice_ref
    /\ FailedAt("insert_agreement") =>
          /\ get_next_agreement_no(agreements, today) = last.agreement_no
          /\ \A i \in DOMAIN agreements : agreements[i].agreement_no # last.agreement_no

\* After one saved generation, insert_invoice has failed for 12/25/0005.
C8_Witness ==
    /\ FailedAt("insert_invoice")
    /\ generated = 2
    /\ Len(invoices) = 5
    /\ last.invoice_ref = InvoicePrefix \o <<"1", "2", "/", "2", "5", "/", "0", "0", "0", "5">>

\* What a step appended to each of the three tables.
Appended(old, new) == SubSeq(new, Len(old) + 1, Len(new))

\* C12: every generate action, run to its end or cut short by a failing
\* store call, either appends one invoice row, one agreement row and one
\* activity-log entry naming both references, or appends nothing to any of
\* the three tables.
C12_GenerateAllOrNothing ==
    [][last'.op = "generate" =>
          LET inv == Appended(invoices, invoices')
              agr == Appended(agreements, agreements')
              log == Appended(activity_logs, activity_logs')
          IN  \/ inv = <<>> /\ agr = <<>> /\ log = <<>>
              \/ /\ Len(inv) = 1 /\ Len(agr) = 1 /\ Len(log) = 1
                 /\ log[1].invoice_ref = inv[1].invoice_ref
                 /\ log[1].agreement_no = agr[1].agreement_no]_vars

(***************************************************************************)
(* Document generation with interleaved requests: every store call of      *)
(* "Generate Documents" is one round trip, and other sessions' calls may   *)
(* run between two of them.  pc names the store call a session makes next. *)
(***************************************************************************)
GenPending == {"get_next_agreement_no", "insert_invoice", "insert_agreement",
               "log_activity"}

\* Lines 170-175: the click, the check of the form, get_next_invoice_ref.
GenAllocInvoice(s, form) ==
    /\ pc[s] = "idle"
    /\ session[s].logged_in
    /\ generated < MaxGen
    /\ IF form.customer_name = <<>> \/ form.phone = <<>>
       THEN /\ last' = [op |-> "generate", s |-> s, outcome |-> "rejected"]
            /\ UNCHANGED <<pc, local, generated>>
       ELSE /\ pc' = [pc EXCEPT ![s] = "get_next_agreement_no"]
            /\ local' = [local EXCEPT ![s] =
                   [op |-> "generate", form |-> form,
                    invoice_ref |-> get_next_invoice_ref(invoices, today),
                    agreement_no |-> <<>>, now |-> At(today, 0)]]
            /\ generated' = generated + 1
            /\ UNCHANGED last
    /\ UNCHANGED <<users, session, invoices, agreements, activity_logs, today, stamp>>

\* Lines 176-178: get_next_agreement_no and datetime.now().
GenAllocAgreement(s) ==
    /\ pc[s] = "get_next_agreement_no"
    /\ pc' = [pc EXCEPT ![s] = "insert_invoice"]
    /\ local' = [local EXCEPT ![s].agreement_no = get_next_agreement_no(agreements, today),
                              ![s].now = At(today, stamp + 1)]
    /\ stamp' = stamp + 1
    /\ UNCHANGED <<users, session, invoices, agreements, activity_logs, today,
                   generated, last>>

\* Lines 180-192: insert_invoice.
GenInsertInvoice(s) ==
    /\ pc[s] = "insert_invoice"
    /\ pc' = [pc EXCEPT ![s] = "insert_agreement"]
    /\ invoices' = Insert(invoices,
                       InvoiceRow(local[s].invoice_ref, local[s].form,
                                  session[s].username, local[s].now), TRUE)
    /\ UNCHANGED <<users, session, local, agreements, activity_logs, today,
                   stamp, generated, last>>

\* Lines 194-206: insert_agreement.
GenInsertAgreement(s) ==
    /\ pc[s] = "insert_agreement"
    /\ pc' = [pc EXCEPT ![s] = "log_activity"]
    /\ agreements' = Insert(agreements,
                         AgreementRow(local[s].agreement_no, local[s].form,
                                      session[s].username, local[s].now), TRUE)
    /\ UNCHANGED <<users, session, local, invoices, activity_logs, today,
                   stamp, generated, last>>

\* Lines 208-219: log_activity and the success message.
GenLog(s) ==
    /\ pc[s] = "log_activity"
    /\ pc' = [pc EXCEPT ![s] = "idle"]
    /\ activity_logs' = Append(activity_logs,
           GenerateLog(session[s].username, local[s].invoice_ref, local[s].agreement_no))
    /\ last' = [op |-> "generate", s |-> s, outcome |-> "saved",
                failAt |-> NoFailure, invoice_ref |-> local[s].invoice_ref,
                agreement_no |-> local[s].agreement_no]
    /\ local' = [local EXCEPT ![s] = Idle]
    /\ UNCHANGED <<users, session, invoices, agreements, today, stamp, generated>>

\* The store call a session is about to make raises: the run ends there.
GenFail(s) ==
    /\ pc[s] \in GenPending
    /\ pc' = [pc EXCEPT ![s] = "idle"]
    /\ last' = [op |-> "generate", s |-> s, outcome |-> "error",
                failAt |-> pc[s], invoice_ref |-> local[s].invoice_ref,
                agreement_no |-> local[s].agreement_no]
    /\ local' = [local EXCEPT ![s] = Idle]
    /\ UNCHANGED <<users, session, docVars>>

NextDocsConc ==
    \/ \E s \in Sessions, form \in FormInputs : GenAllocInvoice(s, form)
    \/ \E s \in Sessions : GenAllocAgreement(s)
    \/ \E s \in Sessions : GenInsertInvoice(s)
    \/ \E s \in Sessions : GenInsertAgreement(s)
    \/ \E s \in Sessions : GenLog(s)
    \/ \E s \in Sessions : GenFail(s)
    \/ Tick

SpecDocsConc == InitDocs /\ [][NextDocsConc]_vars

(***************************************************************************)
(* Properties of interleaved document generation.                          *)
(***************************************************************************)
HoldsInvoiceRef(t) == pc[t] \in {"get_next_agreement_no", "insert_invoice"}

HoldsAgreementNo(t) == pc[t] \in {"insert_invoice", "insert_agreement"}

Stored(refs, ref) == \E i \in DOMAIN refs : refs[i] = ref

\* C6: when a session allocates while another session of the same period
\* holds an allocated reference that no stored row carries yet, it computes
\* that same reference; and every insert appends its row, whether or not a
\* stored row already carries the reference.
C6_AllocationRace ==
    [][\A s \in Sessions :
          /\ (pc[s] = "idle" /\ pc'[s] = "get_next_agreement_no") =>
                \A t \in Sessions \ {s} :
                   (/\ HoldsInvoiceRef(t)
                    /\ RefPeriod(local[t].invoice_ref, InvoicePrefix) = month_key(today)
                    /\ ~Stored(InvoiceRefs(invoices), local[t].invoice_ref))
                   => local'[s].invoice_ref = local[t].invoice_ref
          /\ (pc[s] = "get_next_agreement_no" /\ pc'[s] = "insert_invoice") =>
                \A t \in Sessions \ {s} :
                   (/\ HoldsAgreementNo(t)
                    /\ RefPeriod(local[t].agreement_no, AgreementPrefix) = year_key(today)
                    /\ ~Stored(AgreementNos(agreements), local[t].agreement_no))
                   => local'[s].agreement_no = local[t].agreement_no
          /\ (pc[s] = "insert_invoice" /\ pc'[s] = "insert_agreement") =>
                /\ Len(invoices') = Len(invoices) + 1
                /\ invoices'[Len(invoices')].invoice_ref = local[s].invoice_ref
          /\ (pc[s] = "insert_agreement" /\ pc'[s] = "log_activity") =>
                /\ Len(agreements') = Len(agreements) + 1
                /\ agreements'[Len(agreements')].agreement_no = local[s].agreement_no
      ]_vars

\* Two generations have run to their end, and the two invoice rows carry
\* one reference and the two agreement rows one number.
C6_Witness ==
    /\ \E i, j \in DOMAIN invoices :
          /\ i < j
          /\ invoices[i].invoice_ref = invoices[j].invoice_ref
          /\ invoices[i].created_by # invoices[j].created_by
    /\ \E i, j \in DOMAIN agreements :
          /\ i < j
          /\ agreements[i].agreement_no = agreements[j].agreement_no
    /\ Len(activity_logs) = 2
    /\ \A s \in Sessions : pc[s] = "idle"

(***************************************************************************)
(* History query.                                                          *)
(***************************************************************************)
\* created_at values compare as their ISO strings do: by time.
Before(a, b) ==
    \/ a.year < b.year
    \/ a.year = b.year /\ a.month < b.month
    \/ a.year = b.year /\ a.month = b.month /\ a.t < b.t

RemoveAt(seq, i) == SubSeq(seq, 1, i - 1) \o SubSeq(seq, i + 1, Len(seq))

\* order("created_at", desc=True)
RECURSIVE OrderDesc(_)
OrderDesc(rows) ==
    IF rows = <<>> THEN <<>>
    ELSE LET i == CHOOSE i \in DOMAIN rows :
                     \A j \in DOMAIN rows :
                        ~Before(rows[i].created_at, rows[j].created_at)
         IN  <<rows[i]>> \o OrderDesc(RemoveAt(rows, i))

\* A role test that lets every caller see every row.
ScopeOff(rows, role, username) == rows

\* if role != "admin": query.eq("created_by", username)
Scope(rows, role, username) ==
    IF role # "admin"
    THEN SelectSeq(rows, LAMBDA r : r.created_by = username)
    ELSE rows

\* The or_ filter: customer_name, phone or the reference ILIKE %search%.
SearchMatches(r, search) ==
    \/ ILike(r.customer_name, search)
    \/ ILike(r.phone, search)
    \/ ILike(RowRef(r), search)

\* if search: query.or_(...).  An empty search (or None) filters nothing.
Search(rows, search) ==
    IF search # <<>>
    THEN SelectSeq(rows, LAMBDA r : SearchMatches(r, search))
    ELSE rows

\* range(offset, offset + limit - 1) of the ordered rows.
Page(rows, limit, offset) ==
    SubSeq(rows, offset + 1,
           IF offset + limit < Len(rows) THEN offset + limit ELSE Len(rows))

\* fetch_invoices / fetch_agreements on their table: data is the page,
\* count the exact count of the filtered rows.
fetch_rows(rows, role, username, search, limit, offset) ==
    LET matched == Search(Scope(rows, role, username), search)
    IN  [data |-> Page(OrderDesc(matched), limit, offset),
         count |-> Len(matched)]

fetch_invoices(rows, role, username, search, limit, offset) ==
    fetch_rows(rows, role, username, search, limit, offset)

fetch_agreements(rows, role, username, search, limit, offset) ==
    fetch_rows(rows, role, username, search, limit, offset)

\* float(x) of an amount: a number, or text that reads as one; NULL and
\* other text raise (ok = FALSE).
FloatOf(amount) ==
    CASE amount.kind = "num" -> [ok |-> TRUE, val |-> amount.num]
      [] amount.kind = "text" -> ParseInt(amount.text)
      [] OTHER -> [ok |-> FALSE, val |-> 0]

RECURSIVE SumSeq(_)
SumSeq(nums) == IF nums = <<>> THEN 0 ELSE Head(nums) + SumSeq(Tail(nums))

\* calculate_invoice_totals / calculate_agreement_totals: the try/except
\* around float() passes over an amount that does not parse.
calculate_totals(rows) ==
    [count |-> Len(rows),
     total_amount |->
        SumSeq([i \in DOMAIN rows |->
                   IF FloatOf(rows[i].amount).ok
                   THEN FloatOf(rows[i].amount).val ELSE 0])]

calculate_invoice_totals(rows) == calculate_totals(rows)

calculate_agreement_totals(rows) == calculate_totals(rows)

\* What is typed into the search box of a history page.
Searches == {<<>>, <<"R", "A", "O">>, <<"5", "5">>, <<"/", "0", "0", "0", "3">>}

PageNumbers == {1, 2}

\* invoice_history_page / agreement_history_page, rendered for the session.
InvoiceHistoryPage(s, search, page_no) ==
    /\ pc[s] = "idle"
    /\ session[s].logged_in
    /\ LET result == fetch_invoices(invoices, session[s].role, session[s].username,
                                    search, ROWS_PER_PAGE,
                                    (page_no - 1) * ROWS_PER_PAGE)
       IN  last' = [op |-> "invoice_history", s |-> s, search |-> search,
                    page_no |-> page_no, data |-> result.data,
                    totals |-> calculate_invoice_totals(result.data)]
    /\ UNCHANGED <<users, session, pc, local, docVars>>

AgreementHistoryPage(s, search, page_no) ==
    /\ pc[s] = "idle"
    /\ session[s].logged_in
    /\ LET result == fetch_agreements(agreements, session[s].role,
                                      session[s].username, search, ROWS_PER_PAGE,
                                      (page_no - 1) * ROWS_PER_PAGE)
       IN  last' = [op |-> "agreement_history", s |-> s, search |-> search,
                    page_no |-> page_no, data |-> result.data,
                    totals |-> calculate_agreement_totals(result.data)]
    /\ UNCHANGED <<users, session, pc, local, docVars>>

(***************************************************************************)
(* Analytics aggregator.                                                   *)
(***************************************************************************)
NoDate == [year |-> 0, month |-> 0]            \* None: no bound

\* What the dashboard's two date inputs hold.
DateInputs == {NoDate, [year |-> 2025, month |-> 12]}

\* A date bound is the instant its day starts.
Instant(date) == At(date, 0)

\* fetch_invoices_in_range: gte / lte on created_at for the bounds given.
fetch_invoices_in_range(rows, start_date, end_date) ==
    SelectSeq(rows, LAMBDA r :
        /\ start_date # NoDate => ~Before(r.created_at, Instant(start_date))
        /\ end_date # NoDate => ~Before(Instant(end_date), r.created_at))

\* float(i["amount"]) outside any try: one amount that does not parse
\* raises out of the aggregation.
Raises(rows) == \E i \in DOMAIN rows : ~FloatOf(rows[i].amount).ok

Amounts(rows) == [i \in DOMAIN rows |-> FloatOf(rows[i].amount).val]

\* round(total / count, 2), in hundredths.
AvgCents(total, count) == (200 * total + count) \div (2 * count)

get_revenue_kpis(rows) ==
    LET total_revenue == SumSeq(Amounts(rows))
        total_count == Len(rows)
    IN  [raised |-> Raises(rows),
         total_revenue |-> IF Raises(rows) THEN 0 ELSE total_revenue,
         total_invoices |-> total_count,
         avg_cents |-> IF Raises(rows) \/ total_count = 0 THEN 0
                       ELSE AvgCents(total_revenue, total_count)]

\* created_at[:10]
Day(created_at) == [year |-> created_at.year, month |-> created_at.month]

\* series[day] = series.get(day, 0) + float(inv["amount"]), as a function
\* of the days that occur.
get_daily_revenue_series(rows) ==
    LET days == {Day(rows[i].created_at) : i \in DOMAIN rows}
    IN  [raised |-> Raises(rows),
         series |-> IF Raises(rows) THEN <<>>
                    ELSE [d \in days |->
                            SumSeq(Amounts(SelectSeq(rows,
                                LAMBDA r : Day(r.created_at) = d)))]]

\* perf[user] = perf.get(user, 0) + float(inv["amount"])
get_staff_performance(rows) ==
    LET staff == {rows[i].created_by : i \in DOMAIN rows}
    IN  [raised |-> Raises(rows),
         perf |-> IF Raises(rows) THEN <<>>
                  ELSE [u \in staff |->
                          SumSeq(Amounts(SelectSeq(rows,
                              LAMBDA r : r.created_by = u)))]]

\* dashboard_page for an administrator: the three revenue aggregations over
\* the chosen range.  The first one that raises ends the page with an
\* error.  The distributions and the activity timeline read no amount and
\* are left out.
DashboardPage(s, start_date, end_date) ==
    /\ pc[s] = "idle"
    /\ session[s].logged_in
    /\ session[s].role = "admin"
    /\ LET rows == fetch_invoices_in_range(invoices, start_date, end_date)
       IN  last' = [op |-> "dashboard", s |-> s, start_date |-> start_date,
                    end_date |-> end_date, rows |-> rows,
                    raised |-> Raises(rows),
                    kpis |-> get_revenue_kpis(rows),
                    daily_series |-> get_daily_revenue_series(rows),
                    staff_perf |-> get_staff_performance(rows)]
    /\ UNCHANGED <<users, session, pc, local, docVars>>

(***************************************************************************)
(* History and dashboard over a store that documents are written to        *)
(* without failures, within one month.                                     *)
(***************************************************************************)
NextQuery ==
    \/ \E s \in Sessions, form \in FormInputs : Generate(s, form, NoFailure)
    \/ \E s \in Sessions, search \in Searches, page_no \in PageNumbers :
          InvoiceHistoryPage(s, search, page_no)
    \/ \E s \in Sessions, search \in Searches, page_no \in PageNumbers :
          AgreementHistoryPage(s, search, page_no)
    \/ \E s \in Sessions, start_date \in DateInputs, end_date \in DateInputs :
          DashboardPage(s, start_date, end_date)

SpecQuery == InitDocs /\ [][NextQuery]_vars

(***************************************************************************)
(* Properties of the history query and the aggregations.                   *)
(***************************************************************************)
Roles == {"admin", "staff"}

Limits == {1, ROWS_PER_PAGE}

Offsets == {0, 1}

OnlyOwnRows(rows, username) == \A i \in DOMAIN rows : rows[i].created_by = username

\* C7: whatever the search term, limit and offset, fetch_invoices and
\* fetch_agreements called with a role other than "admin" return only rows
\* created by the caller; called with role "admin", the first page, when
\* large enough, holds the matching rows of all users.
C7_RoleScoping ==
    /\ \A role \in Roles, username \in Usernames, search \in Searches,
          limit \in Limits, offset \in Offsets :
          LET inv == fetch_invoices(invoices, role, username, search, limit, offset)
              agr == fetch_agreements(agreements, role, username, search, limit, offset)
          IN  /\ role # "admin" =>
                    /\ OnlyOwnRows(inv.data, username)
                    /\ OnlyOwnRows(agr.data, username)
              /\ (role = "admin" /\ offset = 0 /\ limit >= Len(invoices)) =>
                    Range(inv.data) = {r \in Range(invoices) :
                                          search # <<>> => SearchMatches(r, search)}
              /\ (role = "admin" /\ offset = 0 /\ limit >= Len(agreements)) =>
                    Range(agr.data) = {r \in Range(agreements) :
                                          search # <<>> => SearchMatches(r, search)}
    /\ (last.op \in {"invoice_history", "agreement_history"}
          /\ session[last.s].role # "admin") =>
             OnlyOwnRows(last.data, session[last.s].username)

\* A staff member has searched the invoice history with a term that also
\* matches invoices of other users, and was shown rows.
C7_Witness ==
    /\ last.op = "invoice_history"
    /\ session[last.s].role = "staff"
    /\ last.search # <<>>
    /\ last.data # <<>>
    /\ \E i \in DOMAIN invoices :
          /\ invoices[i].created_by # session[last.s].username
          /\ SearchMatches(invoices[i], last.search)

Parseable(rows) == SelectSeq(rows, LAMBDA r : FloatOf(r.amount).ok)

\* C9 as stated: every aggregation passes over an amount that does not
\* parse and returns the result of the remaining rows; none ends in an
\* error.
C9_AggregationsSkipUnparseable ==
    /\ last.op = "dashboard" =>
          /\ ~last.raised
          /\ last.kpis = get_revenue_kpis(Parseable(last.rows))
          /\ last.daily_series = get_daily_revenue_series(Parseable(last.rows))
          /\ last.staff_perf = get_staff_performance(Parseable(last.rows))
    /\ last.op \in {"invoice_history", "agreement_history"} =>
          last.totals.total_amount = SumSeq(Amounts(Parseable(last.data)))
====
